---- MODULE Spec2Model ----
(***************************************************************************)
(* Model of the search pipeline of notes-mcp (src/src/index.ts):           *)
(* the notes_search and notes_search_advanced tool calls, the AppleScript  *)
(* retrieval they generate and run, and the relevance ranking.             *)
(*                                                                         *)
(* Text is a sequence of characters; a character is a one-letter string,   *)
(* or one of the tokens "CR", "LF", "TAB" (control characters) and         *)
(* "E_acute", "e_acute" (a non-ASCII letter pair).                          *)
(***************************************************************************)
EXTENDS Integers, Sequences, FiniteSets, TLC

\* store       the contents of the Notes application
\* pc          per request: "idle", "retrieving" (suspended in the await of
\*             execAsync) or "done" (response sent)
\* req         per request: the tool name and the arguments of the call
\* calls       per request: the searchNotes invocations made for it
\* outcome     per request: how the osascript run ended ("none": it was not
\*             run or has not ended; "ok"; or one of ExecFailures)
\* candidates  per request: what searchNotes returned to searchNotesAdvanced
\* ranked      per request: whether notes.map (the ranking) was run
\* clock       per request: the Date.now() its ranking read, in days (0 when
\*             it read none)
\* resp        per request: the response of the CallTool handler
VARIABLES store, pc, req, calls, outcome, candidates, ranked, clock, resp

vars == <<store, pc, req, calls, outcome, candidates, ranked, clock, resp>>

\* An absent text argument (JavaScript undefined).
None == <<"<undefined>">>

\* The `limit` argument: absent, or the number n.
NoLimit == <<>>

Num(n) == <<n>>

----------------------------------------------------------------------------
\* Bounds of the model.

\* Largest explicit `limit` argument a request carries (smallest is -1).
MaxLimit == 2

\* Last day on which a request is ranked (the first is day 10).
MaxNow == 11

----------------------------------------------------------------------------
\* Text primitives.

Min(a, b) == IF a < b THEN a ELSE b

Max(a, b) == IF a > b THEN a ELSE b

\* String.prototype.toLowerCase on one character (full Unicode lowering).
LowerCharJS(c) ==
  CASE c = "A" -> "a"
    [] c = "B" -> "b"
    [] c = "C" -> "c"
    [] c = "I" -> "i"
    [] c = "M" -> "m"
    [] c = "N" -> "n"
    [] c = "W" -> "w"
    [] c = "E_acute" -> "e_acute"
    [] OTHER -> c

\* String.prototype.toLowerCase.
ToLowerJS(s) == [i \in 1..Len(s) |-> LowerCharJS(s[i])]

\* The script's toLowerCase handler on one character: only the 26 letters
\* of uppercaseChars are replaced, every other character is kept.
toLowerCaseChar(c) ==
  CASE c = "A" -> "a"
    [] c = "B" -> "b"
    [] c = "C" -> "c"
    [] c = "I" -> "i"
    [] c = "M" -> "m"
    [] c = "N" -> "n"
    [] c = "W" -> "w"
    [] OTHER -> c

\* The script's toLowerCase handler.
toLowerCase(theText) == [i \in 1..Len(theText) |-> toLowerCaseChar(theText[i])]

\* String.prototype.includes: sub occurs in s as one contiguous run.
Includes(s, sub) ==
  \E i \in 1..(Len(s) - Len(sub) + 1) : SubSeq(s, i, i + Len(sub) - 1) = sub

\* AppleScript text comparison.  The script has no `considering case` block,
\* so `is` and `contains` compare text with case ignored (the language
\* default) and every other attribute considered.
ASFold(s) == ToLowerJS(s)

\* AppleScript `a is b` on text.
ASIs(a, b) == ASFold(a) = ASFold(b)

\* AppleScript `a contains b` on text.
ASContains(a, b) == Includes(ASFold(a), ASFold(b))

\* replace(/"/g, '\\"'): a backslash is put before every double quote,
\* nothing else is escaped.
RECURSIVE EscapeQuotes(_)
EscapeQuotes(s) ==
  IF s = <<>> THEN <<>>
  ELSE (IF Head(s) = "\"" THEN <<"\\", "\"">> ELSE <<Head(s)>>)
       \o EscapeQuotes(Tail(s))

\* The text an AppleScript string literal "..." with these characters between
\* its quotes denotes: \" is a quote, \\ a backslash, \n \r \t control
\* characters.  A bare quote ends the literal early and any other use of the
\* backslash is no escape: the script then does not compile.
LiteralError == <<"<syntax error>">>

RECURSIVE ASLiteral(_)
ASLiteral(s) ==
  IF s = <<>> THEN <<>>
  ELSE IF Head(s) = "\""
    THEN LiteralError
  ELSE IF Head(s) = "\\"
    THEN IF Len(s) < 2 THEN LiteralError
         ELSE LET c == s[2]
                  d == CASE c = "\\" -> <<"\\">>
                         [] c = "\"" -> <<"\"">>
                         [] c = "n" -> <<"LF">>
                         [] c = "r" -> <<"CR">>
                         [] c = "t" -> <<"TAB">>
                         [] OTHER -> LiteralError
                  rest == ASLiteral(SubSeq(s, 3, Len(s)))
              IN IF d = LiteralError \/ rest = LiteralError
                   THEN LiteralError
                   ELSE d \o rest
  ELSE LET rest == ASLiteral(Tail(s))
       IN IF rest = LiteralError THEN LiteralError ELSE <<Head(s)>> \o rest

----------------------------------------------------------------------------
\* The note store (the Notes application), as the script enumerates it:
\* accounts, then the folders of an account, then the notes of a folder.
\* A date is a whole number of days.

Acct(name, folders) == [name |-> name, folders |-> folders]

Fldr(name, notes) == [name |-> name, notes |-> notes]

StoredNote(id, name, plaintext, modificationDate) ==
  [id |-> id, name |-> name, plaintext |-> plaintext,
   modificationDate |-> modificationDate]

\* Two accounts; a folder "Nt" in each; folders "Wk" and "wk" whose names
\* differ in case only; notes with upper-case letters, a backslash, and the
\* control characters CR and TAB.
FullStore ==
  << Acct(<<"I", "C">>,
       << Fldr(<<"N", "t">>,
            << StoredNote("n1", <<"a">>, <<"b", "a">>, 1),
               StoredNote("n2", <<"A", "b">>, <<"a", "b", " ", "a", "b">>, 10) >>),
          Fldr(<<"W", "k">>,
            << StoredNote("n3", <<"a", "a", "a">>, <<"b", "CR", "a">>, 7) >>) >>),
     Acct(<<"M", "c">>,
       << Fldr(<<"N", "t">>,
            << StoredNote("n4", <<"b">>, <<"a", "TAB", "c">>, 11) >>),
          Fldr(<<"w", "k">>,
            << StoredNote("n5", <<"\\">>, <<"a", "b">>, 3),
               StoredNote("n6", <<"E_acute">>, <<"a", "b", "a", "b">>, 9) >>) >>) >>

\* One account, one folder, two notes.
SmallStore ==
  << Acct(<<"I", "C">>,
       << Fldr(<<"N", "t">>,
            << StoredNote("n1", <<"b">>, <<"a", "b">>, 10),
               StoredNote("n2", <<"a", "b">>, <<"a">>, 2) >>) >>) >>

\* One account with one folder and no note.
EmptyStore == << Acct(<<"I", "C">>, << Fldr(<<"N", "t">>, <<>>) >>) >>

\* One folder of notes that all hold "ab": n1 and n2 are each other with
\* title and body exchanged; n2 to n5 differ in modification date only, n4 is
\* dated after every day of NowDays, n3 and n5 are dated alike.
ScoreStore ==
  << Acct(<<"I", "C">>,
       << Fldr(<<"N", "t">>,
            << StoredNote("n1", <<"c">>, <<"a", "b">>, 9),
               StoredNote("n2", <<"a", "b">>, <<"c">>, 9),
               StoredNote("n3", <<"a", "b">>, <<"c">>, 5),
               StoredNote("n4", <<"a", "b">>, <<"c">>, 13),
               StoredNote("n5", <<"a", "b">>, <<"c">>, 5) >>) >>) >>

\* Notes with punctuation: n1 holds ".b" in its body and "ab" in its title,
\* n2 holds "(a" in its title.
PunctStore ==
  << Acct(<<"I", "C">>,
       << Fldr(<<"N", "t">>,
            << StoredNote("n1", <<"a", "b">>, <<".", "b">>, 9),
               StoredNote("n2", <<"(", "a">>, <<"c">>, 9) >>) >>) >>

Stores == {FullStore, SmallStore, EmptyStore, ScoreStore, PunctStore}

----------------------------------------------------------------------------
\* The search script (searchNotes, the template literal).

\* The script's replaceText handler for a one-character searchStr: every
\* occurrence of searchStr becomes replaceStr.
RECURSIVE replaceText(_, _, _)
replaceText(theText, searchStr, replaceStr) ==
  IF theText = <<>> THEN <<>>
  ELSE (IF Head(theText) = searchStr THEN replaceStr ELSE <<Head(theText)>>)
       \o replaceText(Tail(theText), searchStr, replaceStr)

\* The escaping of nName and nPlain: backslash, double quote, return.
EscapeNameText(t) ==
  replaceText(replaceText(replaceText(t, "\\", <<"\\", "\\">>),
                          "\"", <<"\\", "\"">>),
              "CR", <<"\\", "n">>)

\* The escaping of nFolder and nAccount: backslash and double quote only.
EscapeScopeText(t) ==
  replaceText(replaceText(t, "\\", <<"\\", "\\">>), "\"", <<"\\", "\"">>)

\* The JSON object the script appends to `output` for note n.
EmitNote(n, f, acc) ==
  [id |-> n.id,
   name |-> EscapeNameText(n.name),
   plaintext |-> EscapeNameText(n.plaintext),
   folder |-> EscapeScopeText(f.name),
   account |-> EscapeScopeText(acc.name),
   modificationDate |-> n.modificationDate]

\* if lowerName contains searchQuery or lowerPlain contains searchQuery
NoteMatches(n, searchQuery) ==
  \/ ASContains(toLowerCase(n.name), searchQuery)
  \/ ASContains(toLowerCase(n.plaintext), searchQuery)

\* repeat with n in notes of f: a note is appended while matchCount, the
\* number of objects already in output, is below the limit.
RECURSIVE RepeatNotes(_, _, _, _, _)
RepeatNotes(ns, f, acc, script, output) ==
  IF ns = <<>> THEN output
  ELSE LET n == Head(ns)
           out == IF Len(output) < script.limit
                     /\ NoteMatches(n, script.searchQuery)
                    THEN Append(output, EmitNote(n, f, acc))
                    ELSE output
       IN RepeatNotes(Tail(ns), f, acc, script, out)

\* repeat with f in folders of acc, under `if name of f is "<folder>"`
\* when the request names a folder.
RECURSIVE RepeatFolders(_, _, _, _)
RepeatFolders(fs, acc, script, output) ==
  IF fs = <<>> THEN output
  ELSE LET f == Head(fs)
           out == IF script.folder = None \/ ASIs(f.name, script.folder)
                    THEN RepeatNotes(f.notes, f, acc, script, output)
                    ELSE output
       IN RepeatFolders(Tail(fs), acc, script, out)

\* repeat with acc in accounts, under `if name of acc is "<account>"`
\* when the request names an account.
RECURSIVE RepeatAccounts(_, _, _)
RepeatAccounts(accs, script, output) ==
  IF accs = <<>> THEN output
  ELSE LET acc == Head(accs)
           out == IF script.account = None \/ ASIs(acc.name, script.account)
                    THEN RepeatFolders(acc.folders, acc, script, output)
                    ELSE output
       IN RepeatAccounts(Tail(accs), script, out)

\* Default of the `limit` option (searchNotes and searchNotesAdvanced).
DefaultLimit == 50

\* `x ? ... : ""` in the template: undefined and "" are falsy.
Truthy(x) == x # None /\ x # <<>>

\* The script searchNotes builds: the three interpolated string literals,
\* as AppleScript reads them, and the interpolated limit.
searchNotesScript(query, options) ==
  [searchQuery |-> ASLiteral(EscapeQuotes(ToLowerJS(query))),
   account |-> IF Truthy(options.account)
                 THEN ASLiteral(EscapeQuotes(options.account)) ELSE None,
   folder |-> IF Truthy(options.folder)
                THEN ASLiteral(EscapeQuotes(options.folder)) ELSE None,
   limit |-> IF options.limit = NoLimit THEN DefaultLimit ELSE options.limit[1]]

\* The script compiles when each of its interpolated literals is one.
ScriptCompiles(script) ==
  /\ script.searchQuery # LiteralError
  /\ script.account # LiteralError
  /\ script.folder # LiteralError

\* Standard output of a run of the script against store st that the
\* environment lets finish: the objects of the JSON array, each text field
\* as the script wrote it between the quotes.
ScriptOutput(st, script) == RepeatAccounts(st, script, <<>>)

----------------------------------------------------------------------------
\* runAppleScript and runAppleScriptJSON.

\* What a run of osascript can end in.  "syntax" is a script that does not
\* compile; the others are the environment's: any error exit, the 60 s
\* timeout, more than maxBuffer bytes of output, automation access refused.
ExecFailures == {"syntax", "exit", "timeout", "maxBuffer", "notAuthorized"}

Returned(v) == [threw |-> FALSE, msg |-> "", value |-> v]

Thrown(m) == [threw |-> TRUE, msg |-> m, value |-> <<>>]

ExecOk(objs) == [failure |-> "ok", empty |-> FALSE, objs |-> objs]

ExecFailed(kind) == [failure |-> kind, empty |-> TRUE, objs |-> <<>>]

\* A faulty runAppleScript whose catch block returns the (empty) output
\* instead of throwing.
runAppleScript_swallow(exec) ==
  Returned([empty |-> exec.empty, objs |-> exec.objs])

\* runAppleScript: the trimmed stdout, or the catch block: an error whose
\* message includes "Not authorized" is replaced, any other is rethrown.
runAppleScript(exec) ==
  IF exec.failure = "ok"
    THEN Returned([empty |-> exec.empty, objs |-> exec.objs])
  ELSE IF exec.failure = "notAuthorized"
    THEN Thrown("Notes access denied")
  ELSE Thrown(exec.failure)

\* JSON.parse of the text between the quotes of a JSON string: a backslash
\* starts an escape, a raw control character or a bare quote is a syntax
\* error.
JSONError == <<"<json error>">>

RECURSIVE JSONString(_)
JSONString(e) ==
  IF e = <<>> THEN <<>>
  ELSE IF Head(e) \in {"CR", "LF", "TAB", "\""}
    THEN JSONError
  ELSE IF Head(e) = "\\"
    THEN IF Len(e) < 2 THEN JSONError
         ELSE LET c == e[2]
                  d == CASE c = "\\" -> <<"\\">>
                         [] c = "\"" -> <<"\"">>
                         [] c = "n" -> <<"LF">>
                         [] c = "r" -> <<"CR">>
                         [] c = "t" -> <<"TAB">>
                         [] OTHER -> JSONError
                  rest == JSONString(SubSeq(e, 3, Len(e)))
              IN IF d = JSONError \/ rest = JSONError
                   THEN JSONError
                   ELSE d \o rest
  ELSE LET rest == JSONString(Tail(e))
       IN IF rest = JSONError THEN JSONError ELSE <<Head(e)>> \o rest

\* JSON.parse of one object of the array.
ParseNote(o) ==
  [id |-> o.id,
   name |-> JSONString(o.name),
   plaintext |-> JSONString(o.plaintext),
   folder |-> JSONString(o.folder),
   account |-> JSONString(o.account),
   modificationDate |-> o.modificationDate]

ParsesAsJSON(objs) ==
  \A i \in 1..Len(objs) :
    /\ JSONString(objs[i].name) # JSONError
    /\ JSONString(objs[i].plaintext) # JSONError
    /\ JSONString(objs[i].folder) # JSONError
    /\ JSONString(objs[i].account) # JSONError

\* What runAppleScriptJSON returns: a parsed list, or the raw text.
ListValue(items) == [kind |-> "list", items |-> items]

TextValue == [kind |-> "text", items |-> <<>>]

\* runAppleScriptJSON: [] for empty output, the parsed value, or, when
\* JSON.parse throws, the output text itself.
runAppleScriptJSON(exec) ==
  LET result == runAppleScript(exec)
  IN IF result.threw THEN result
     ELSE IF result.value.empty THEN Returned(ListValue(<<>>))
     ELSE IF ParsesAsJSON(result.value.objs)
       THEN Returned(ListValue([i \in 1..Len(result.value.objs) |->
                                  ParseNote(result.value.objs[i])]))
     ELSE Returned(TextValue)

----------------------------------------------------------------------------
\* Ranking (searchNotesAdvanced after the await).

\* Characters the regular expression class \s matches.
Whitespace == {" ", "TAB", "LF", "CR"}

\* split(/\s+/) followed by filter(t => t.length > 1): the maximal runs of
\* non-whitespace characters, in order, that are longer than one character.
\* `cur` is the run being read.
RECURSIVE SplitTerms(_, _)
SplitTerms(s, cur) ==
  IF s = <<>>
    THEN IF Len(cur) > 1 THEN <<cur>> ELSE <<>>
  ELSE IF Head(s) \in Whitespace
    THEN (IF Len(cur) > 1 THEN <<cur>> ELSE <<>>) \o SplitTerms(Tail(s), <<>>)
  ELSE SplitTerms(Tail(s), Append(cur, Head(s)))

QueryTerms(query) == SplitTerms(ToLowerJS(query), <<>>)

\* new RegExp(term, 'gi') for the terms of this model (letters, quote,
\* backslash, full stop, opening parenthesis): a backslash makes the next
\* character literal, a backslash that ends the pattern is a SyntaxError; a
\* full stop matches any character but a line terminator; an opening
\* parenthesis starts a group that nothing closes (no term of this model
\* holds a closing one), a SyntaxError; every other character matches
\* itself.  The pattern is the sequence of its atoms.
RegExpError == <<"<SyntaxError>">>

\* The atom of an unescaped full stop.
AnyChar == "<any>"

LineTerminators == {"LF", "CR"}

RECURSIVE RegExp(_)
RegExp(term) ==
  IF term = <<>> THEN <<>>
  ELSE IF Head(term) = "\\"
    THEN IF Len(term) < 2 THEN RegExpError
         ELSE LET rest == RegExp(SubSeq(term, 3, Len(term)))
              IN IF rest = RegExpError THEN RegExpError
                 ELSE <<term[2]>> \o rest
  ELSE IF Head(term) = "(" THEN RegExpError
  ELSE LET rest == RegExp(Tail(term))
           atom == IF Head(term) = "." THEN AnyChar ELSE Head(term)
       IN IF rest = RegExpError THEN RegExpError ELSE <<atom>> \o rest

\* The pattern matches the text at position i, case ignored.
MatchesAt(text, pattern, i) ==
  /\ i + Len(pattern) - 1 <= Len(text)
  /\ \A k \in 1..Len(pattern) :
       IF pattern[k] = AnyChar
         THEN text[i + k - 1] \notin LineTerminators
         ELSE LowerCharJS(text[i + k - 1]) = LowerCharJS(pattern[k])

\* (text.match(re) || []).length for a global, case-insensitive pattern:
\* matches are taken left to right and the scan resumes after each match.
RECURSIVE MatchCountFrom(_, _, _)
MatchCountFrom(text, pattern, i) ==
  IF i + Len(pattern) - 1 > Len(text) THEN 0
  ELSE IF MatchesAt(text, pattern, i)
    THEN 1 + MatchCountFrom(text, pattern, i + Len(pattern))
  ELSE MatchCountFrom(text, pattern, i + 1)

MatchCount(text, pattern) == MatchCountFrom(text, pattern, 1)

\* if (!matchedIn.includes(x)) matchedIn.push(x)
PushOnce(matchedIn, x) ==
  IF \E i \in 1..Len(matchedIn) : matchedIn[i] = x
    THEN matchedIn ELSE Append(matchedIn, x)

\* A faulty step that weighs a title match like a body match.
TermStep_titleAsContent(acc, term, name, content, query) ==
  LET titleMatches == MatchCount(name, RegExp(term))
      contentMatches == MatchCount(content, RegExp(term))
      s1 == IF titleMatches > 0 THEN acc.score + titleMatches ELSE acc.score
      m1 == IF titleMatches > 0 THEN PushOnce(acc.matchedIn, "title") ELSE acc.matchedIn
      s2 == IF contentMatches > 0 THEN s1 + contentMatches ELSE s1
      m2 == IF contentMatches > 0 THEN PushOnce(m1, "content") ELSE m1
      s3 == IF Includes(name, ToLowerJS(query)) THEN s2 + 5 ELSE s2
      s4 == IF Includes(content, ToLowerJS(query)) THEN s3 + 5 ELSE s3
  IN [score |-> s4, matchedIn |-> m2]

\* One iteration of `for (const term of queryTerms)` on the accumulator
\* acc = [score, matchedIn]; score is a whole number here.
TermStep(acc, term, name, content, query) ==
  LET titleMatches == MatchCount(name, RegExp(term))
      contentMatches == MatchCount(content, RegExp(term))
      s1 == IF titleMatches > 0 THEN acc.score + titleMatches * 3 ELSE acc.score
      m1 == IF titleMatches > 0 THEN PushOnce(acc.matchedIn, "title")
                                ELSE acc.matchedIn
      s2 == IF contentMatches > 0 THEN s1 + contentMatches ELSE s1
      m2 == IF contentMatches > 0 THEN PushOnce(m1, "content") ELSE m1
      s3 == IF Includes(name, ToLowerJS(query)) THEN s2 + 10 ELSE s2
      s4 == IF Includes(content, ToLowerJS(query)) THEN s3 + 5 ELSE s3
  IN [score |-> s4, matchedIn |-> m2]

\* A faulty loop that adds the phrase bonus to a note once, with its last
\* term, instead of once per term.
RECURSIVE TermLoop_phraseOnce(_, _, _, _, _)
TermLoop_phraseOnce(acc, terms, name, content, query) ==
  IF terms = <<>> THEN acc
  ELSE LET step == TermStep(acc, Head(terms), name, content, query)
           bonus == (IF Includes(name, ToLowerJS(query)) THEN 10 ELSE 0)
                    + (IF Includes(content, ToLowerJS(query)) THEN 5 ELSE 0)
           kept == IF Len(terms) > 1
                     THEN [step EXCEPT !.score = @ - bonus] ELSE step
       IN TermLoop_phraseOnce(kept, Tail(terms), name, content, query)

RECURSIVE TermLoop(_, _, _, _, _)
TermLoop(acc, terms, name, content, query) ==
  IF terms = <<>> THEN acc
  ELSE TermLoop(TermStep(acc, Head(terms), name, content, query),
                Tail(terms), name, content, query)

\* A faulty bonus that grows with the age of the note.
RelevanceHundredths_growing(whole, days) ==
  IF days < 7
    THEN (2 * (700 * whole + 200 * Max(0, days)) + 7) \div 14
    ELSE 100 * whole

\* Math.round(score * 100) for score = whole + (7 - days) / 7 * 2 when
\* days < 7 (the bonus is Math.max(0, ...) of it), else score = whole:
\* the relevanceScore in hundredths.  Math.round rounds halves up.
RelevanceHundredths(whole, days) ==
  IF days < 7
    THEN (2 * (700 * whole + 200 * Max(0, 7 - days)) + 7) \div 14
    ELSE 100 * whole

\* The body of notes.map: the SearchResult of one note.  t is Date.now()
\* in days.
ScoreNote(note, query, t) ==
  LET name == ToLowerJS(note.name)
      content == ToLowerJS(note.plaintext)
      acc == TermLoop([score |-> 0, matchedIn |-> <<>>],
                      QueryTerms(query), name, content, query)
      daysSinceModified == t - note.modificationDate
  IN [id |-> note.id,
      name |-> note.name,
      plaintext |-> note.plaintext,
      folder |-> note.folder,
      account |-> note.account,
      modificationDate |-> note.modificationDate,
      relevanceScore |-> RelevanceHundredths(acc.score, daysSinceModified),
      matchedIn |-> acc.matchedIn]

\* new RegExp(term) throws for some term while a note is scored.
RegExpThrows(query) ==
  \E i \in 1..Len(QueryTerms(query)) : RegExp(QueryTerms(query)[i]) = RegExpError

\* A faulty comparator with its operands swapped.
Compare_ascending(a, b) == a.relevanceScore - b.relevanceScore

\* sort((a, b) => b.relevanceScore - a.relevanceScore): the comparator's
\* sign for a before b.
Compare(a, b) == b.relevanceScore - a.relevanceScore

\* A faulty insertion that puts x before the elements it ties with.
RECURSIVE InsertSorted_unstable(_, _)
InsertSorted_unstable(sorted, x) ==
  IF sorted = <<>> THEN <<x>>
  ELSE IF Compare(sorted[Len(sorted)], x) < 0
    THEN Append(sorted, x)
  ELSE Append(InsertSorted_unstable(SubSeq(sorted, 1, Len(sorted) - 1), x),
              sorted[Len(sorted)])

\* Array.prototype.sort is stable: x goes after every element it does not
\* have to precede.
RECURSIVE InsertSorted(_, _)
InsertSorted(sorted, x) ==
  IF sorted = <<>> THEN <<x>>
  ELSE IF Compare(sorted[Len(sorted)], x) <= 0
    THEN Append(sorted, x)
  ELSE Append(InsertSorted(SubSeq(sorted, 1, Len(sorted) - 1), x),
              sorted[Len(sorted)])

RECURSIVE SortResults(_, _)
SortResults(todo, sorted) ==
  IF todo = <<>> THEN sorted
  ELSE SortResults(Tail(todo), InsertSorted(sorted, Head(todo)))

\* A faulty slice that keeps the whole list.
Slice_none(s, end) == s

\* Array.prototype.slice(0, end): a negative end counts from the end.
Slice(s, end) ==
  LET last == IF end < 0 THEN Max(Len(s) + end, 0) ELSE Min(end, Len(s))
  IN SubSeq(s, 1, last)

\* A faulty candidate limit that does not over-fetch.
CandidateLimit_same(limit) == limit

\* limit * 2, the limit searchNotesAdvanced passes to searchNotes.
CandidateLimit(limit) == limit * 2

----------------------------------------------------------------------------
\* searchNotes, searchNotesAdvanced, handleToolCall and the CallTool handler.

\* A faulty check that refuses only a missing query.
QueryFalsy_undefinedOnly(q) == q = None

\* `!args.query`: undefined and "" are falsy, any other text is not.
QueryFalsy(q) == q = None \/ q = <<>>

\* const { folder, account, limit = 50 } = options
OptionLimit(limit) == IF limit = NoLimit THEN DefaultLimit ELSE limit[1]

\* The call searchNotes(query, { folder, account, limit }) as recorded in
\* `calls`; limit is the option as passed (NoLimit when undefined).
SearchCall(query, folder, account, limit) ==
  [query |-> query, folder |-> folder, account |-> account, limit |-> limit]

\* The searchNotes call a request makes before it suspends.
CallOf(a) ==
  IF a.tool = "notes_search"
    THEN SearchCall(a.query, a.folder, a.account, a.limit)
    ELSE SearchCall(a.query, a.folder, a.account,
                    Num(CandidateLimit(OptionLimit(a.limit))))

\* The limit interpolated into the script of a recorded call.
EffectiveLimit(call) == searchNotesScript(call.query, call).limit

\* searchNotes after its await: the value of runAppleScriptJSON.
searchNotes(exec) == runAppleScriptJSON(exec)

\* searchNotesAdvanced after its await.  notes.map throws a TypeError when
\* notes is not an array, new RegExp throws inside map when a term is no
\* pattern; otherwise the scored notes are sorted and sliced.
searchNotesAdvanced(exec, query, limit, t) ==
  LET notes == searchNotes(exec)
  IN IF notes.threw THEN notes
     ELSE IF notes.value.kind # "list"
       THEN Thrown("notes.map is not a function")
     ELSE IF notes.value.items # <<>> /\ RegExpThrows(query)
       THEN Thrown("Invalid regular expression")
     ELSE LET results == [i \in 1..Len(notes.value.items) |->
                            ScoreNote(notes.value.items[i], query, t)]
          IN Returned(ListValue(Slice(SortResults(results, <<>>), limit)))

\* A faulty map that writes relevanceScore and matchedIn onto the note
\* itself and returns it, instead of a copy.
NotesAfterRanking_aliased(exec, query, t) ==
  LET notes == searchNotes(exec).value
  IN IF notes.kind = "list" /\ ~RegExpThrows(query)
       THEN ListValue([i \in 1..Len(notes.items) |->
                         ScoreNote(notes.items[i], query, t)])
       ELSE notes

\* The array bound to `notes` when searchNotesAdvanced ends.  The callback
\* of notes.map only reads `note` and returns the new object
\* { ...note, relevanceScore, matchedIn }; map builds a new array, and sort
\* and slice act on that array: no statement assigns to `notes`, to an
\* element of it or to a field of an element.
NotesAfterRanking(exec, query, t) == searchNotes(exec).value

\* notes.map was called on an array.
RankingRan(exec) ==
  /\ ~searchNotes(exec).threw
  /\ searchNotes(exec).value.kind = "list"

\* handleToolCall after the await, for the two search tools.
handleToolCall(a, exec, t) ==
  IF a.tool = "notes_search"
    THEN searchNotes(exec)
    ELSE searchNotesAdvanced(exec, a.query, OptionLimit(a.limit), t)

\* The CallTool handler: the text content, or the caught error.
Response(result) ==
  IF result.threw
    THEN [isError |-> TRUE, msg |-> result.msg, kind |-> "error", items |-> <<>>]
    ELSE [isError |-> FALSE, msg |-> "", kind |-> result.value.kind,
          items |-> result.value.items]

NoResponse == [isError |-> FALSE, msg |-> "", kind |-> "none", items |-> <<>>]

\* No value yet.
NoValue == [kind |-> "none", items |-> <<>>]

----------------------------------------------------------------------------
\* Requests.

Tools == {"notes_search", "notes_search_advanced"}

Queries ==
  { None, <<>>, <<" ">>,
    <<"a">>, <<"b">>, <<"a", "b">>, <<"A", "B">>, <<"a", "a">>,
    <<"a", "b", " ", "a", "b">>, <<"e_acute">>,
    <<"\\">>, <<"\\", "\\">>, <<"\"">>,
    <<".", "b">>, <<"(", "a">> }

FolderArgs == {None, <<"N", "t">>, <<"W", "k">>}

AccountArgs == {None, <<"I", "C">>, <<"m", "c">>}

LimitArgs == {NoLimit} \cup {Num(n) : n \in -1..MaxLimit}

Args ==
  [tool : Tools, query : Queries, folder : FolderArgs, account : AccountArgs,
   limit : LimitArgs]

NoArgs ==
  [tool |-> "none", query |-> None, folder |-> None, account |-> None,
   limit |-> NoLimit]

\* The values Date.now() takes, in days.
NowDays == 10..MaxNow

Slots == DOMAIN pc

----------------------------------------------------------------------------
\* The state machine.

InitOn(slots) ==
  /\ store \in Stores
  /\ pc = [r \in slots |-> "idle"]
  /\ req = [r \in slots |-> NoArgs]
  /\ calls = [r \in slots |-> <<>>]
  /\ outcome = [r \in slots |-> "none"]
  /\ candidates = [r \in slots |-> NoValue]
  /\ ranked = [r \in slots |-> FALSE]
  /\ clock = [r \in slots |-> 0]
  /\ resp = [r \in slots |-> NoResponse]

Init == InitOn({1})

\* A call whose query is falsy: handleToolCall throws before any await.
Reject(r, a) ==
  /\ pc[r] = "idle"
  /\ QueryFalsy(a.query)
  /\ pc' = [pc EXCEPT ![r] = "done"]
  /\ req' = [req EXCEPT ![r] = a]
  /\ resp' = [resp EXCEPT ![r] = Response(Thrown("query is required"))]
  /\ UNCHANGED <<store, calls, outcome, candidates, ranked, clock>>

\* A call that passes the check: searchNotes builds the script and
\* runAppleScript starts osascript; the request suspends.
Start(r, a) ==
  /\ pc[r] = "idle"
  /\ ~QueryFalsy(a.query)
  /\ pc' = [pc EXCEPT ![r] = "retrieving"]
  /\ req' = [req EXCEPT ![r] = a]
  /\ calls' = [calls EXCEPT ![r] = Append(@, CallOf(a))]
  /\ UNCHANGED <<store, outcome, candidates, ranked, clock, resp>>

\* A faulty handler that keeps its result in one buffer shared by every
\* request in flight.
Resume_shared(r, exec, t) ==
  /\ pc' = [pc EXCEPT ![r] = "done"]
  /\ outcome' = [outcome EXCEPT ![r] = exec.failure]
  /\ candidates' = [candidates EXCEPT ![r] =
       IF req[r].tool = "notes_search_advanced" /\ ~searchNotes(exec).threw
         THEN NotesAfterRanking(exec, req[r].query, t) ELSE NoValue]
  /\ ranked' = [ranked EXCEPT ![r] =
       req[r].tool = "notes_search_advanced" /\ RankingRan(exec)]
  /\ clock' = [clock EXCEPT ![r] =
       IF req[r].tool = "notes_search_advanced" /\ RankingRan(exec)
          /\ searchNotes(exec).value.items # <<>>
         THEN t ELSE 0]
  /\ resp' = [s \in Slots |->
       IF pc[s] = "done" \/ s = r
         THEN Response(handleToolCall(req[r], exec, t)) ELSE resp[s]]
  /\ UNCHANGED <<store, req, calls>>

\* The rest of the request, run when execAsync settles with `exec`; t is the
\* value of Date.now() while the notes are scored.
Resume(r, exec, t) ==
  /\ pc' = [pc EXCEPT ![r] = "done"]
  /\ outcome' = [outcome EXCEPT ![r] = exec.failure]
  /\ candidates' = [candidates EXCEPT ![r] =
       IF req[r].tool = "notes_search_advanced" /\ ~searchNotes(exec).threw
         THEN NotesAfterRanking(exec, req[r].query, t) ELSE NoValue]
  /\ ranked' = [ranked EXCEPT ![r] =
       req[r].tool = "notes_search_advanced" /\ RankingRan(exec)]
  /\ clock' = [clock EXCEPT ![r] =
       IF req[r].tool = "notes_search_advanced" /\ RankingRan(exec)
          /\ searchNotes(exec).value.items # <<>>
         THEN t ELSE 0]
  /\ resp' = [resp EXCEPT ![r] = Response(handleToolCall(req[r], exec, t))]
  /\ UNCHANGED <<store, req, calls>>

\* osascript ran the script to its end.
StoreReturns(r, t) ==
  /\ pc[r] = "retrieving"
  /\ LET script == searchNotesScript(calls[r][1].query, calls[r][1])
     IN /\ ScriptCompiles(script)
        /\ Resume(r, ExecOk(ScriptOutput(store, script)), t)

\* osascript failed: the script does not compile, or the environment ended
\* the run.
StoreFails(r, kind) ==
  /\ pc[r] = "retrieving"
  /\ LET script == searchNotesScript(calls[r][1].query, calls[r][1])
     IN (kind = "syntax") <=> ~ScriptCompiles(script)
  /\ Resume(r, ExecFailed(kind), 0)

\* The response is delivered and the request forgotten.
Release(r) ==
  /\ pc[r] = "done"
  /\ pc' = [pc EXCEPT ![r] = "idle"]
  /\ req' = [req EXCEPT ![r] = NoArgs]
  /\ calls' = [calls EXCEPT ![r] = <<>>]
  /\ outcome' = [outcome EXCEPT ![r] = "none"]
  /\ candidates' = [candidates EXCEPT ![r] = NoValue]
  /\ ranked' = [ranked EXCEPT ![r] = FALSE]
  /\ clock' = [clock EXCEPT ![r] = 0]
  /\ resp' = [resp EXCEPT ![r] = NoResponse]
  /\ UNCHANGED store

Next ==
  \/ \E r \in Slots, a \in Args : Reject(r, a)
  \/ \E r \in Slots, a \in Args : Start(r, a)
  \/ \E r \in Slots, t \in NowDays : StoreReturns(r, t)
  \/ \E r \in Slots, kind \in ExecFailures : StoreFails(r, kind)
  \/ \E r \in Slots : Release(r)

Spec == Init /\ [][Next]_vars

\* Two requests in flight.  The CallTool handler is an async function: while
\* one call awaits osascript the transport may deliver the next, so the
\* steps of two calls interleave in any order.  The calls of this
\* specification are unscoped.
PipelinedQueries == {<<>>, <<"a">>, <<"a", "b">>}

PipelinedArgs ==
  [tool : Tools, query : PipelinedQueries, folder : {None}, account : {None},
   limit : {NoLimit, Num(1)}]

InitPipelined == InitOn({1, 2})

NextPipelined ==
  \/ \E r \in Slots, a \in PipelinedArgs : Reject(r, a)
  \/ \E r \in Slots, a \in PipelinedArgs : Start(r, a)
  \/ \E r \in Slots, t \in NowDays : StoreReturns(r, t)
  \/ \E r \in Slots, kind \in ExecFailures : StoreFails(r, kind)
  \/ \E r \in Slots : Release(r)

SpecPipelined == InitPipelined /\ [][NextPipelined]_vars

----------------------------------------------------------------------------
\* Vocabulary of the properties.

SearchTool(r) == req[r].tool = "notes_search"

AdvancedTool(r) == req[r].tool = "notes_search_advanced"

\* The request got past the `query` check.
Accepted(r) == pc[r] \in {"retrieving", "done"} /\ calls[r] # <<>>

\* A response carrying a list of notes or results.
ListResponse(r) ==
  pc[r] = "done" /\ ~resp[r].isError /\ resp[r].kind = "list"

WhitespaceOnly(q) ==
  q # None /\ q # <<>> /\ \A i \in 1..Len(q) : q[i] \in Whitespace

GivenLimit(r) == req[r].limit # NoLimit

----------------------------------------------------------------------------
\* C1: a search or search_advanced call whose query is missing or the empty
\* string ends in the error response "query is required" and never invokes
\* searchNotes (no retrieval call is recorded, the store script is not run).
C1_EmptyQueryRejected ==
  \A r \in Slots :
    (pc[r] # "idle" /\ req[r].query \in {None, <<>>})
      => /\ pc[r] = "done"
         /\ resp[r].isError
         /\ resp[r].msg = "query is required"
         /\ calls[r] = <<>>
         /\ outcome[r] = "none"

\* C1 happens: an advanced search with the empty string as query was refused.
C1_Witness ==
  \E r \in Slots :
    /\ pc[r] = "done" /\ AdvancedTool(r) /\ req[r].query = <<>>
    /\ resp[r].isError /\ calls[r] = <<>>

\* C2 (as claimed): a call whose query is made of whitespace only ends in a
\* validation error and never invokes retrieval.
C2_WhitespaceQueryRejected ==
  \A r \in Slots :
    (pc[r] # "idle" /\ WhitespaceOnly(req[r].query))
      => /\ pc[r] = "done"
         /\ resp[r].isError
         /\ calls[r] = <<>>

\* C3 (as claimed): a limit that is missing, zero or negative is replaced by
\* 50: retrieval runs with limit 50 (search) or 100 (search_advanced) and
\* the result has at most 50 entries.
C3_NonPositiveLimitDefaults ==
  \A r \in Slots :
    (Accepted(r) /\ (~GivenLimit(r) \/ req[r].limit[1] <= 0))
      => /\ EffectiveLimit(calls[r][1]) = IF SearchTool(r) THEN 50 ELSE 100
         /\ ListResponse(r) => Len(resp[r].items) <= 50

\* C4: an accepted search_advanced request with limit L (50 when absent) has
\* invoked searchNotes exactly once, with its own query, folder and account
\* and the limit 2 * L; the ranking has run only if that retrieval has
\* completed and returned, and its result has at most L entries.  An accepted
\* search request has invoked searchNotes exactly once with limit L and runs
\* no ranking.
C4_RetrieveOnceThenRank ==
  \A r \in Slots :
    Accepted(r) =>
      LET L == IF GivenLimit(r) THEN req[r].limit[1] ELSE 50
      IN /\ Len(calls[r]) = 1
         /\ calls[r][1].query = req[r].query
         /\ calls[r][1].folder = req[r].folder
         /\ calls[r][1].account = req[r].account
         /\ AdvancedTool(r) =>
              /\ EffectiveLimit(calls[r][1]) = 2 * L
              /\ ranked[r] => /\ pc[r] = "done"
                              /\ outcome[r] = "ok"
                              /\ candidates[r].kind = "list"
              /\ ListResponse(r) => /\ ranked[r]
                                    /\ Len(resp[r].items) <= Max(L, 0)
         /\ SearchTool(r) =>
              /\ EffectiveLimit(calls[r][1]) = L
              /\ ~ranked[r]

\* C4 happens: an advanced search with an explicit limit got more candidates
\* than the limit, ranked them and answered.
C4_Witness ==
  \E r \in Slots :
    /\ AdvancedTool(r) /\ ListResponse(r) /\ GivenLimit(r) /\ ranked[r]
    /\ req[r].limit[1] >= 1
    /\ Len(candidates[r].items) > req[r].limit[1]
    /\ EffectiveLimit(calls[r][1]) = 2 * req[r].limit[1]

\* C5: when the osascript run of a search_advanced request fails (script
\* error, error exit, timeout, output over maxBuffer, access refused) the
\* response is an error, the ranking has not run and no result is returned.
C5_RetrievalFailureFailsRequest ==
  \A r \in Slots :
    (pc[r] = "done" /\ AdvancedTool(r) /\ outcome[r] \in ExecFailures)
      => /\ resp[r].isError
         /\ resp[r].kind = "error"
         /\ resp[r].items = <<>>
         /\ ~ranked[r]
         /\ candidates[r] = NoValue

\* C5 happens: an advanced search whose osascript run timed out was answered
\* with an error.
C5_Witness ==
  \E r \in Slots :
    /\ pc[r] = "done" /\ AdvancedTool(r) /\ outcome[r] = "timeout"
    /\ resp[r].isError

\* C6: the results of a search_advanced response are in non-increasing order
\* of relevanceScore.
C6_ScoresNonIncreasing ==
  \A r \in Slots :
    (AdvancedTool(r) /\ ListResponse(r))
      => \A i, j \in 1..Len(resp[r].items) :
           i < j => resp[r].items[i].relevanceScore
                      >= resp[r].items[j].relevanceScore

\* C6 happens: a response with two results of different scores, led by a note
\* that retrieval did not return first.
C6_Witness ==
  \E r \in Slots :
    /\ AdvancedTool(r) /\ ListResponse(r)
    /\ Len(resp[r].items) >= 2
    /\ resp[r].items[1].relevanceScore > resp[r].items[2].relevanceScore
    /\ resp[r].items[1].id # candidates[r].items[1].id

\* A result without the two fields the ranking adds.
AsNote(x) ==
  [id |-> x.id, name |-> x.name, plaintext |-> x.plaintext,
   folder |-> x.folder, account |-> x.account,
   modificationDate |-> x.modificationDate]

\* C7: for a candidate list N and a positive limit L (50 when absent), the
\* results of search_advanced are at most L and at most |N|, each is a
\* candidate of N and no candidate appears twice; an empty N gives an empty
\* result list in a response that is no error.
C7_RankedSubsetOfCandidates ==
  \A r \in Slots :
    (pc[r] = "done" /\ AdvancedTool(r) /\ candidates[r].kind = "list")
      => LET N == candidates[r].items
             L == IF GivenLimit(r) THEN req[r].limit[1] ELSE 50
             out == resp[r].items
         IN /\ (L > 0 /\ ListResponse(r)) =>
                 /\ Len(out) <= L
                 /\ Len(out) <= Len(N)
                 /\ \A i \in 1..Len(out) :
                      \E k \in 1..Len(N) : N[k] = AsNote(out[i])
                 /\ \A i, j \in 1..Len(out) : i # j => out[i].id # out[j].id
            /\ N = <<>> => ListResponse(r) /\ out = <<>>

\* C7 happens: retrieval returned more candidates than the positive limit and
\* the response holds exactly `limit` of them.
C7_Witness ==
  \E r \in Slots :
    /\ AdvancedTool(r) /\ ListResponse(r) /\ GivenLimit(r)
    /\ req[r].limit[1] >= 1
    /\ Len(candidates[r].items) > req[r].limit[1]
    /\ Len(resp[r].items) = req[r].limit[1]

\* The output of the script run of request r is no JSON.
MalformedOutput(r) ==
  /\ outcome[r] = "ok"
  /\ ~ParsesAsJSON(ScriptOutput(store,
        searchNotesScript(calls[r][1].query, calls[r][1])))

\* C8 (as claimed): when the output of the store cannot be parsed as JSON, a
\* search or search_advanced call answers with the raw text in a response
\* that is no error.
C8_MalformedOutputReturnsRawText ==
  \A r \in Slots :
    (pc[r] = "done" /\ MalformedOutput(r))
      => ~resp[r].isError /\ resp[r].kind = "text"

\* The notes of a store in enumeration order: accounts, folders, notes.
RECURSIVE NotesOfFolders(_)
NotesOfFolders(fs) ==
  IF fs = <<>> THEN <<>> ELSE Head(fs).notes \o NotesOfFolders(Tail(fs))

RECURSIVE NotesOfAccounts(_)
NotesOfAccounts(accs) ==
  IF accs = <<>> THEN <<>>
  ELSE NotesOfFolders(Head(accs).folders) \o NotesOfAccounts(Tail(accs))

\* The ASCII-lowercased title or body holds the lowercased query as one run.
ContainsQuery(n, query) ==
  \/ Includes(toLowerCase(n.name), ToLowerJS(query))
  \/ Includes(toLowerCase(n.plaintext), ToLowerJS(query))

RECURSIVE FirstMatches(_, _, _)
FirstMatches(ns, query, k) ==
  IF ns = <<>> \/ k <= 0 THEN <<>>
  ELSE IF ContainsQuery(Head(ns), query)
    THEN <<Head(ns).id>> \o FirstMatches(Tail(ns), query, k - 1)
  ELSE FirstMatches(Tail(ns), query, k)

\* C9 (as claimed): an unscoped search returns exactly the first `limit`
\* notes, in enumeration order, whose ASCII-lowercased title or body holds
\* the lowercased query as one whole substring.
C9_ExactlyFirstMatchingNotes ==
  \A r \in Slots :
    (SearchTool(r) /\ ListResponse(r)
       /\ req[r].folder = None /\ req[r].account = None)
      => [i \in 1..Len(resp[r].items) |-> resp[r].items[i].id]
           = FirstMatches(NotesOfAccounts(store), req[r].query,
                          EffectiveLimit(calls[r][1]))

\* C10 (as claimed): with `account` given every returned note is of an
\* account with exactly that name, with `folder` given every returned note
\* is of a folder with exactly that name.
C10_ScopeExactNames ==
  \A r \in Slots :
    ListResponse(r)
      => \A i \in 1..Len(resp[r].items) :
           /\ req[r].account # None
                => resp[r].items[i].account = req[r].account
           /\ req[r].folder # None
                => resp[r].items[i].folder = req[r].folder

----------------------------------------------------------------------------
\* Vocabulary of the scoring properties.

\* A response of search_advanced that carries results.
RankedResponse(r) == AdvancedTool(r) /\ ListResponse(r)

\* The days between the modification of result x and the Date.now() that
\* the ranking of request r read.
DaysSinceModified(r, x) == clock[r] - x.modificationDate

\* The whole-number part of the score of x: what the term loop added.
LoopScore(r, x) ==
  TermLoop([score |-> 0, matchedIn |-> <<>>], QueryTerms(req[r].query),
           ToLowerJS(x.name), ToLowerJS(x.plaintext), req[r].query).score

\* The part of relevanceScore, in hundredths, that the term loop did not add.
RecencyPart(r, x) == x.relevanceScore - 100 * LoopScore(r, x)

\* 2 * max(0, (7 - d) / 7) with a negative d taken as 0, in hundredths.
ClampedBonus(d) == (2 * 200 * Max(0, 7 - Max(d, 0)) + 7) \div 14

\* C11 (as claimed): the recency bonus in a result's score is
\* 2 * max(0, (7 - d) / 7) with a negative d treated as 0; it lies in [0, 2],
\* is 2 at d = 0 and 0 for d >= 7.
C11_RecencyBonusClamped ==
  \A r \in Slots :
    RankedResponse(r) =>
      \A i \in 1..Len(resp[r].items) :
        LET x == resp[r].items[i]
            d == DaysSinceModified(r, x)
        IN /\ RecencyPart(r, x) = ClampedBonus(d)
           /\ RecencyPart(r, x) \in 0..200
           /\ d = 0 => RecencyPart(r, x) = 200
           /\ d >= 7 => RecencyPart(r, x) = 0

\* Two results that differ in nothing the score reads but modificationDate.
SameButModified(x, y) ==
  /\ x.name = y.name
  /\ x.plaintext = y.plaintext

\* C12: of two results of one ranking (one query, one now) that are
\* identical except for modificationDate, the more recently modified one has
\* a relevanceScore at least as high.
C12_RecencyMonotone ==
  \A r \in Slots :
    RankedResponse(r) =>
      \A i, j \in 1..Len(resp[r].items) :
        LET x == resp[r].items[i]
            y == resp[r].items[j]
        IN (SameButModified(x, y) /\ x.modificationDate >= y.modificationDate)
             => x.relevanceScore >= y.relevanceScore

\* A ranking returned two such results, the more recent one scoring strictly
\* higher.
C12_Witness ==
  \E r \in Slots :
    /\ RankedResponse(r)
    /\ \E i, j \in 1..Len(resp[r].items) :
         LET x == resp[r].items[i]
             y == resp[r].items[j]
         IN /\ SameButModified(x, y)
            /\ x.modificationDate > y.modificationDate
            /\ x.relevanceScore > y.relevanceScore

\* Term t occurs in text s, case ignored.
Occurs(t, s) == Includes(ToLowerJS(s), t)

\* x holds every term of query q in its title and none in its body, and y is
\* the same note with title and body exchanged: y holds the terms only in
\* its body, as often as x holds them in its title.
TitleVersusBody(x, y, q) ==
  /\ x.name = y.plaintext
  /\ x.plaintext = y.name
  /\ x.modificationDate = y.modificationDate
  /\ QueryTerms(q) # <<>>
  /\ \A k \in 1..Len(QueryTerms(q)) :
       /\ Occurs(QueryTerms(q)[k], x.name)
       /\ ~Occurs(QueryTerms(q)[k], x.plaintext)

RECURSIVE FirstDetected(_, _, _)
FirstDetected(terms, s, k) ==
  IF k > Len(terms) THEN k
  ELSE IF Occurs(terms[k], s) THEN k
  ELSE FirstDetected(terms, s, k + 1)

\* The matchedIn the claim describes for note x and the scored terms: each
\* place once, in the order the loop (title before body, term by term)
\* first finds a term in it.
ClaimedMatchedIn(terms, x) ==
  LET inTitle == FirstDetected(terms, x.name, 1)
      inBody == FirstDetected(terms, x.plaintext, 1)
      title == IF inTitle <= Len(terms) THEN <<"title">> ELSE <<>>
      body == IF inBody <= Len(terms) THEN <<"content">> ELSE <<>>
  IN IF inTitle <= inBody THEN title \o body ELSE body \o title

\* C14 (as claimed): matchedIn of every result holds only "title" and
\* "content", each at most once, in the order in which the term loop first
\* detected them; "title" is present iff some scored term occurs in the
\* title, "content" iff some scored term occurs in the body.
C14_MatchedInReflectsOccurrence ==
  \A r \in Slots :
    RankedResponse(r) =>
      \A i \in 1..Len(resp[r].items) :
        resp[r].items[i].matchedIn =
          ClaimedMatchedIn(QueryTerms(req[r].query), resp[r].items[i])

\* The response request r produces when it runs alone against the store:
\* the handler applied to its own arguments, to what osascript gives for its
\* own script, and to the Date.now() its ranking read.
AloneResponse(r) ==
  IF QueryFalsy(req[r].query)
    THEN Response(Thrown("query is required"))
  ELSE IF outcome[r] = "ok"
    THEN Response(handleToolCall(req[r],
           ExecOk(ScriptOutput(store,
             searchNotesScript(CallOf(req[r]).query, CallOf(req[r])))),
           clock[r]))
  ELSE Response(handleToolCall(req[r], ExecFailed(outcome[r]), 0))

\* C15: requests share no mutable state: however the steps of two requests
\* in flight interleave, the response of each is the response it produces
\* when it runs alone against the same store.
C15_ResponsesIndependent ==
  \A r \in Slots : pc[r] = "done" => resp[r] = AloneResponse(r)

\* The second request was accepted and answered with notes while the first
\* is still suspended in retrieval.
C15_Witness ==
  /\ Slots = {1, 2}
  /\ pc[1] = "retrieving"
  /\ pc[2] = "done"
  /\ ListResponse(2)
  /\ resp[2].items # <<>>
  /\ req[1] # req[2]

\* The sum of a sequence of numbers.
RECURSIVE SumSeq(_)
SumSeq(s) == IF s = <<>> THEN 0 ELSE Head(s) + SumSeq(Tail(s))

\* The exact-phrase bonus of note x for query q, taken once.
PhraseBonus(x, q) ==
  (IF Includes(ToLowerJS(x.name), ToLowerJS(q)) THEN 10 ELSE 0)
  + (IF Includes(ToLowerJS(x.plaintext), ToLowerJS(q)) THEN 5 ELSE 0)

\* Every position of text at which the pattern matches, case ignored:
\* occurrences that overlap are all counted.
AllOccurrences(text, pattern) ==
  Cardinality({i \in 1..(Len(text) - Len(pattern) + 1) :
                 MatchesAt(text, pattern, i)})

\* The score of x when each term contributes 3 points per occurrence in the
\* title and 1 per occurrence in the body, overlapping occurrences counted,
\* with the phrase bonus the term loop adds.
OverlappingScore(x, q) ==
  LET terms == QueryTerms(q)
  IN SumSeq([k \in 1..Len(terms) |->
               3 * AllOccurrences(x.name, RegExp(terms[k]))
               + AllOccurrences(x.plaintext, RegExp(terms[k]))
               + PhraseBonus(x, q)])

\* C17 (as claimed): each term contributes 3 * (occurrences in the title)
\* + 1 * (occurrences in the body) to the score, where all case-insensitive
\* occurrences count, overlapping ones included ("aa" occurs twice in "aaa").
C17_OverlappingOccurrencesCounted ==
  \A r \in Slots :
    RankedResponse(r) =>
      \A i \in 1..Len(resp[r].items) :
        LET x == resp[r].items[i]
        IN x.relevanceScore =
             RelevanceHundredths(OverlappingScore(x, req[r].query),
                                 DaysSinceModified(r, x))

\* The score of x as the term loop computes it: per term, 3 points per match
\* in the title, 1 per match in the body, and the phrase bonus.
PerTermScore(x, q) ==
  LET terms == QueryTerms(q)
  IN SumSeq([k \in 1..Len(terms) |->
               3 * MatchCount(ToLowerJS(x.name), RegExp(terms[k]))
               + MatchCount(ToLowerJS(x.plaintext), RegExp(terms[k]))])
     + Len(terms) * PhraseBonus(x, q)

\* C18: the exact-phrase bonus (+10 when the title holds the whole lowercased
\* query, +5 when the body holds it) is added once per entry of the terms
\* (duplicates kept): a query with N terms adds it N times to a note that
\* holds the whole query.
C18_PhraseBonusPerTerm ==
  \A r \in Slots :
    RankedResponse(r) =>
      \A i \in 1..Len(resp[r].items) :
        LET x == resp[r].items[i]
        IN x.relevanceScore =
             RelevanceHundredths(PerTermScore(x, req[r].query),
                                 DaysSinceModified(r, x))

\* A query of two terms ranked a note that holds the whole query.
C18_Witness ==
  \E r \in Slots :
    /\ RankedResponse(r)
    /\ Len(QueryTerms(req[r].query)) > 1
    /\ \E i \in 1..Len(resp[r].items) :
         PhraseBonus(resp[r].items[i], req[r].query) > 0

\* C19 (as claimed): when the query has no term (only whitespace and
\* single-character tokens), the score of a note is its recency bonus plus
\* the exact-phrase bonus (10 title / 5 body) when the raw query is a
\* case-insensitive substring of the title / body.
C19_PhraseBonusWithoutTerms ==
  \A r \in Slots :
    (RankedResponse(r) /\ QueryTerms(req[r].query) = <<>>) =>
      \A i \in 1..Len(resp[r].items) :
        LET x == resp[r].items[i]
        IN x.relevanceScore =
             RelevanceHundredths(PhraseBonus(x, req[r].query),
                                 DaysSinceModified(r, x))

\* Retrieval returned the note of result x before the note of result y.
RetrievedBefore(r, x, y) ==
  \E k, l \in 1..Len(candidates[r].items) :
    /\ k < l
    /\ candidates[r].items[k].id = x.id
    /\ candidates[r].items[l].id = y.id

\* C20: two results with equal relevanceScore appear in the output in the
\* relative order in which retrieval returned their notes.
C20_TiesKeepRetrievalOrder ==
  \A r \in Slots :
    RankedResponse(r) =>
      \A i, j \in 1..Len(resp[r].items) :
        (i < j /\ resp[r].items[i].relevanceScore
                    = resp[r].items[j].relevanceScore)
          => RetrievedBefore(r, resp[r].items[i], resp[r].items[j])

\* A ranking returned two results with equal scores below a result that
\* retrieval returned after one of them.
C20_Witness ==
  \E r \in Slots :
    /\ RankedResponse(r)
    /\ \E h, i, j \in 1..Len(resp[r].items) :
         /\ h < i
         /\ i < j
         /\ resp[r].items[i].relevanceScore = resp[r].items[j].relevanceScore
         /\ resp[r].items[h].relevanceScore > resp[r].items[i].relevanceScore
         /\ RetrievedBefore(r, resp[r].items[i], resp[r].items[h])

\* What retrieval returned to request r: the value searchNotes resolved to
\* for the output of the request's script on the store.
RetrievedNotes(r) ==
  searchNotes(ExecOk(ScriptOutput(store,
    searchNotesScript(calls[r][1].query, calls[r][1])))).value

NoteFields == {"id", "name", "plaintext", "folder", "account", "modificationDate"}

\* C21: ranking leaves the candidate notes unchanged: after search_advanced
\* ranked a candidate list, every Note received from retrieval has the field
\* values it had before, and each SearchResult is a copy that carries all
\* the fields of its note plus relevanceScore and matchedIn.
C21_RankingLeavesNotesUnchanged ==
  \A r \in Slots :
    (pc[r] = "done" /\ AdvancedTool(r) /\ ranked[r]) =>
      /\ candidates[r] = RetrievedNotes(r)
      /\ \A k \in 1..Len(candidates[r].items) :
           DOMAIN candidates[r].items[k] = NoteFields
      /\ ListResponse(r) =>
           \A i \in 1..Len(resp[r].items) :
             LET x == resp[r].items[i]
             IN /\ DOMAIN x = NoteFields \cup {"relevanceScore", "matchedIn"}
                /\ \E k \in 1..Len(candidates[r].items) :
                     /\ candidates[r].items[k].id = x.id
                     /\ \A f \in NoteFields : x[f] = candidates[r].items[k][f]

\* A ranking scored several notes and moved a later one to the front.
C21_Witness ==
  \E r \in Slots :
    /\ pc[r] = "done" /\ RankedResponse(r) /\ ranked[r]
    /\ Len(resp[r].items) > 1
    /\ resp[r].items[1].id # candidates[r].items[1].id
    /\ resp[r].items[1].matchedIn # <<>>

\* The score of x when every term is matched as the literal string it is:
\* per term, 3 points per match in the title, 1 per match in the body, and
\* the phrase bonus.
LiteralScore(x, q) ==
  LET terms == QueryTerms(q)
  IN SumSeq([k \in 1..Len(terms) |->
               3 * MatchCount(ToLowerJS(x.name), terms[k])
               + MatchCount(ToLowerJS(x.plaintext), terms[k])])
     + Len(terms) * PhraseBonus(x, q)

\* C22 (as claimed): ranking is total over the query text: for every
\* non-empty query, punctuation included, and every well-formed candidate
\* list of a successful retrieval, search_advanced ends with a result list
\* and no error, and each term is matched as a literal string.
C22_RankingTotalAndLiteral ==
  \A r \in Slots :
    (pc[r] = "done" /\ AdvancedTool(r) /\ ranked[r]) =>
      /\ ListResponse(r)
      /\ \A i \in 1..Len(resp[r].items) :
           LET x == resp[r].items[i]
           IN x.relevanceScore =
                RelevanceHundredths(LiteralScore(x, req[r].query),
                                    DaysSinceModified(r, x))










====
